---- MODULE Spec2Model ----
(***************************************************************************)
(* A model of the typestate Deck of src/src/deck.rs: construction          *)
(* (deck_type / custom_deck_type / build_deck), the shuffle stage          *)
(* (shuffle / no_shuffle) and dealing (deal_top_card / deal_bottom_card /  *)
(* total_cards), over the Rank, Suit and Card value types.                 *)
(*                                                                         *)
(* One deck is followed through its life.  The thread-local random         *)
(* generator the shuffle draws from is a state variable: its seed is       *)
(* arbitrary (chosen in Init) and every draw advances it.                  *)
(***************************************************************************)
EXTENDS Integers, Sequences, FiniteSets

VARIABLES
    stage,        \* the PhantomData tag: "Start", "Building", "Shuffling", "Finished"
    cards,        \* Deck.cards, front of the VecDeque first
    rng,          \* state of the thread-local random generator
    result,       \* value returned by the last Deck<Finished> method
    lastOp,       \* name of the last method called
    deckKind,     \* history: "none", "FullFrench" or "custom"
    ranksArg,     \* history: the rank slice given to build_deck
    suitsArg,     \* history: the suit slice given to build_deck
    built,        \* history: the sequence build_deck returned
    shuffleStep,  \* history: "none", "shuffle" or "no_shuffle"
    shuffles,     \* history: the argument of shuffle
    perms,        \* history: calls of cards.shuffle(..) made by shuffle
    pre,          \* history: the sequence shuffle held right before the cut
    finished,     \* history: the sequence of the deck when it became Finished
    dealtTop,     \* history: the Cards deal_top_card returned, in order
    dealtBottom,  \* history: the Cards deal_bottom_card returned, in order
    absent,       \* history: how many deals returned None
    nType,        \* history: deck-type selections applied to the deck
    nShuffleStage \* history: shuffle-stage steps applied to the deck

vars == <<stage, cards, rng, result, lastOp, deckKind, ranksArg, suitsArg,
          built, shuffleStep, shuffles, perms, pre, finished, dealtTop,
          dealtBottom, absent, nType, nShuffleStage>>

----------------------------------------------------------------------------
(* Bounds of the model *)

\* longest rank slice given to custom_deck_type
MaxRanks == 3
\* longest suit slice given to custom_deck_type
MaxSuits == 2
\* number of states (and seeds) of the random generator
RngModulus == 4
\* deals made on an empty deck
MaxAbsent == 2

\* the ranks and suits custom slices are drawn from
RankPool == {"Ace", "King"}
SuitPool == {"Hearts", "Spades"}
\* the arguments given to shuffle
ShuffleCounts == {0, 1, 7, 10, 11, 1000}

----------------------------------------------------------------------------
(* Rank, Suit, Card *)

RankVALUES ==
    <<"Ace", "King", "Queen", "Jack", "Ten", "Nine", "Eight", "Seven",
      "Six", "Five", "Four", "Three", "Two">>

SuitVALUES == <<"Hearts", "Clubs", "Diamonds", "Spades">>

Rank == {"Ace", "King", "Queen", "Jack", "Ten", "Nine", "Eight", "Seven",
         "Six", "Five", "Four", "Three", "Two"}

Suit == {"Hearts", "Spades", "Diamonds", "Clubs"}

Card_new(rank, suit) == [rank |-> rank, suit |-> suit]

----------------------------------------------------------------------------
(* Option<Card> and usize results *)

None == [kind |-> "None"]
Some(c) == [kind |-> "Some", card |-> c]
Usize(n) == [kind |-> "usize", n |-> n]
Unit == [kind |-> "unit"]

----------------------------------------------------------------------------
(* VecDeque *)

\* a wrong pop_front: front(), the Card is returned and left in the deque
pop_front_peek(v) ==
    IF Len(v) = 0 THEN <<None, v>> ELSE <<Some(Head(v)), v>>

\* pop_front: <<returned value, remaining deque>>
pop_front(v) ==
    IF Len(v) = 0 THEN <<None, v>> ELSE <<Some(Head(v)), Tail(v)>>

\* a wrong pop_back: the back Card is returned and the front one removed
pop_back_drops_front(v) ==
    IF Len(v) = 0 THEN <<None, v>> ELSE <<Some(v[Len(v)]), Tail(v)>>

\* a wrong pop_back: an empty deque yields a default Card
pop_back_or_default(v) ==
    IF Len(v) = 0 THEN <<Some(Card_new("Ace", "Hearts")), v>>
    ELSE <<Some(v[Len(v)]), SubSeq(v, 1, Len(v) - 1)>>

\* pop_back: <<returned value, remaining deque>>
pop_back(v) ==
    IF Len(v) = 0 THEN <<None, v>>
    ELSE <<Some(v[Len(v)]), SubSeq(v, 1, Len(v) - 1)>>

----------------------------------------------------------------------------
(* build_deck *)

\* for rank in ranks.iter() { cards.push_back(Card::new(*rank, *suit)) }, from ranks[j]
RECURSIVE RankLoop(_, _, _)
RankLoop(ranks, suit, j) ==
    IF j > Len(ranks) THEN <<>>
    ELSE <<Card_new(ranks[j], suit)>> \o RankLoop(ranks, suit, j + 1)

\* for suit in suits.iter() { .. }, from suits[i]
RECURSIVE SuitLoop(_, _, _)
SuitLoop(ranks, suits, i) ==
    IF i > Len(suits) THEN <<>>
    ELSE RankLoop(ranks, suits[i], 1) \o SuitLoop(ranks, suits, i + 1)

\* a wrong build: the loops exchanged, rank-major instead of suit-major
RECURSIVE RankMajorLoop(_, _, _)
RankMajorLoop(ranks, suits, j) ==
    IF j > Len(ranks) THEN <<>>
    ELSE [i \in 1..Len(suits) |-> Card_new(ranks[j], suits[i])]
         \o RankMajorLoop(ranks, suits, j + 1)

build_deck_rank_major(capacity, ranks, suits) == RankMajorLoop(ranks, suits, 1)

\* a wrong build: the last rank of every suit is left out
build_deck_short(capacity, ranks, suits) ==
    SuitLoop(SubSeq(ranks, 1, Len(ranks) - 1), suits, 1)

build_deck(capacity, ranks, suits) == SuitLoop(ranks, suits, 1)

----------------------------------------------------------------------------
(* The random generator and rand's SliceRandom::shuffle                    *)
(*                                                                         *)
(* thread_rng() is a seeded pseudo-random generator kept per thread.  It   *)
(* is modelled as a generator with RngModulus states: the seed is any of   *)
(* them, a draw is a function of the state and every draw moves to the     *)
(* next state.  The permutations reached are therefore a subset of those   *)
(* the real generator can produce, one family per seed.                    *)

RngNext(r) == (5 * r + 3) % RngModulus

\* a uniform index below ubound, drawn from generator state r
GenIndex(r, ubound) == (7 * r + 3) % ubound

\* slice.swap(i, j), 0-based
Swap(v, i, j) == [v EXCEPT ![i + 1] = v[j + 1], ![j + 1] = v[i + 1]]

\* for i in (1..self.len()).rev() { self.swap(i, gen_index(rng, i + 1)) }
RECURSIVE FisherYates(_, _, _)
FisherYates(v, r, i) ==
    IF i \notin 1..(Len(v) - 1) THEN [cards |-> v, rng |-> r]
    ELSE FisherYates(Swap(v, i, GenIndex(r, i + 1)), RngNext(r), i - 1)

\* a wrong permutation: the chosen element is copied, not exchanged
RECURSIVE FisherYatesCopy(_, _, _)
FisherYatesCopy(v, r, i) ==
    IF i \notin 1..(Len(v) - 1) THEN [cards |-> v, rng |-> r]
    ELSE FisherYatesCopy([v EXCEPT ![i + 1] = v[GenIndex(r, i + 1) + 1]],
                         RngNext(r), i - 1)

SliceShuffleCopy(v, r) == FisherYatesCopy(v, r, Len(v) - 1)

SliceShuffle(v, r) == FisherYates(v, r, Len(v) - 1)

----------------------------------------------------------------------------
(* Deck<Shuffling>::shuffle *)

\* for _ in lo..=hi { cards.shuffle(&mut thread_rng()) }
RECURSIVE ForRangeInclusive(_, _, _, _, _)
ForRangeInclusive(v, r, lo, hi, done) ==
    IF lo > hi THEN [cards |-> v, rng |-> r, perms |-> done]
    ELSE LET s == SliceShuffle(v, r)
         IN  ForRangeInclusive(s.cards, s.rng, lo + 1, hi, done + 1)

\* a wrong loop: for _ in 0..n, an exclusive range
ShufflePermsExclusive(v, r, n) ==
    IF n \in 1..10 THEN ForRangeInclusive(v, r, 0, n - 1, 0)
    ELSE ForRangeInclusive(v, r, 0, 0, 0)

\* match shuffles { 1..=10 => for _ in 0..=shuffles {..}, _ => one shuffle }
ShufflePerms(v, r, n) ==
    IF n \in 1..10 THEN ForRangeInclusive(v, r, 0, n, 0)
    ELSE LET s == SliceShuffle(v, r)
         IN  [cards |-> s.cards, rng |-> s.rng, perms |-> 1]

\* a wrong cut: the halfway point rounded up
CutRoundUp(v) ==
    LET halfway == (Len(v) + 1) \div 2
        first   == SubSeq(v, 1, halfway)
        last    == SubSeq(v, halfway + 1, Len(v))
    IN  last \o first

\* split_at(len / 2) and [last, first].concat()
Cut(v) ==
    LET halfway == Len(v) \div 2
        first   == SubSeq(v, 1, halfway)
        last    == SubSeq(v, halfway + 1, Len(v))
    IN  last \o first

\* the whole of shuffle: the permutations, then the cut
ShuffleDeck(v, r, n) ==
    LET p == ShufflePerms(v, r, n)
    IN  [cards |-> Cut(p.cards), pre |-> p.cards, rng |-> p.rng, perms |-> p.perms]

----------------------------------------------------------------------------
(* Inputs *)

SeqsUpTo(S, n) == UNION {[1..len -> S] : len \in 0..n}

RankSlices == SeqsUpTo(RankPool, MaxRanks)
SuitSlices == SeqsUpTo(SuitPool, MaxSuits)

----------------------------------------------------------------------------
(* Init and the methods *)

Init ==
    /\ stage = "Start"
    /\ cards = <<>>
    /\ rng \in 0..(RngModulus - 1)
    /\ result = Unit
    /\ lastOp = "none"
    /\ deckKind = "none"
    /\ ranksArg = <<>>
    /\ suitsArg = <<>>
    /\ built = <<>>
    /\ shuffleStep = "none"
    /\ shuffles = 0
    /\ perms = 0
    /\ pre = <<>>
    /\ finished = <<>>
    /\ dealtTop = <<>>
    /\ dealtBottom = <<>>
    /\ absent = 0
    /\ nType = 0
    /\ nShuffleStage = 0

\* Deck<Start>::custom_new
custom_new ==
    /\ stage = "Start"
    /\ stage' = "Building"
    /\ cards' = <<>>
    /\ lastOp' = "custom_new"
    /\ UNCHANGED <<rng, result, deckKind, ranksArg, suitsArg, built,
                   shuffleStep, shuffles, perms, pre, finished, dealtTop,
                   dealtBottom, absent, nType, nShuffleStage>>

\* Deck<Start>::default_new: new().deck_type(FullFrench).shuffle(7)
default_new ==
    /\ stage = "Start"
    /\ LET b == build_deck(52, RankVALUES, SuitVALUES)
           s == ShuffleDeck(b, rng, 7)
       IN  /\ cards' = s.cards
           /\ rng' = s.rng
           /\ built' = b
           /\ pre' = s.pre
           /\ perms' = s.perms
           /\ finished' = s.cards
    /\ stage' = "Finished"
    /\ lastOp' = "default_new"
    /\ deckKind' = "FullFrench"
    /\ ranksArg' = RankVALUES
    /\ suitsArg' = SuitVALUES
    /\ shuffleStep' = "shuffle"
    /\ shuffles' = 7
    /\ nType' = nType + 1
    /\ nShuffleStage' = nShuffleStage + 1
    /\ UNCHANGED <<result, dealtTop, dealtBottom, absent>>

\* Deck<Building>::deck_type(DeckType::FullFrench)
deck_type ==
    /\ stage = "Building"
    /\ LET deck_size == 52
           b == build_deck(deck_size, RankVALUES, SuitVALUES)
       IN  /\ cards' = b
           /\ built' = b
    /\ stage' = "Shuffling"
    /\ lastOp' = "deck_type"
    /\ deckKind' = "FullFrench"
    /\ ranksArg' = RankVALUES
    /\ suitsArg' = SuitVALUES
    /\ nType' = nType + 1
    /\ UNCHANGED <<rng, result, shuffleStep, shuffles, perms, pre, finished,
                   dealtTop, dealtBottom, absent, nShuffleStage>>

\* Deck<Building>::custom_deck_type(ranks, suits)
custom_deck_type ==
    /\ stage = "Building"
    /\ \E ranks \in RankSlices, suits \in SuitSlices :
          LET b == build_deck(Len(ranks) * Len(suits), ranks, suits)
          IN  /\ cards' = b
              /\ built' = b
              /\ ranksArg' = ranks
              /\ suitsArg' = suits
    /\ stage' = "Shuffling"
    /\ lastOp' = "custom_deck_type"
    /\ deckKind' = "custom"
    /\ nType' = nType + 1
    /\ UNCHANGED <<rng, result, shuffleStep, shuffles, perms, pre, finished,
                   dealtTop, dealtBottom, absent, nShuffleStage>>

\* Deck<Shuffling>::shuffle(shuffles)
shuffle ==
    /\ stage = "Shuffling"
    /\ \E n \in ShuffleCounts :
          LET s == ShuffleDeck(cards, rng, n)
          IN  /\ cards' = s.cards
              /\ rng' = s.rng
              /\ pre' = s.pre
              /\ perms' = s.perms
              /\ finished' = s.cards
              /\ shuffles' = n
    /\ stage' = "Finished"
    /\ lastOp' = "shuffle"
    /\ shuffleStep' = "shuffle"
    /\ nShuffleStage' = nShuffleStage + 1
    /\ UNCHANGED <<result, deckKind, ranksArg, suitsArg, built, dealtTop,
                   dealtBottom, absent, nType>>

\* Deck<Shuffling>::no_shuffle
no_shuffle ==
    /\ stage = "Shuffling"
    /\ stage' = "Finished"
    /\ cards' = cards
    /\ finished' = cards
    /\ lastOp' = "no_shuffle"
    /\ shuffleStep' = "no_shuffle"
    /\ nShuffleStage' = nShuffleStage + 1
    /\ UNCHANGED <<rng, result, deckKind, ranksArg, suitsArg, built, shuffles,
                   perms, pre, dealtTop, dealtBottom, absent, nType>>

\* a wrong deal_top_card: offered in every stage, not only on Deck<Finished>
deal_top_card_any_stage ==
    /\ Len(cards) = 0 => absent < MaxAbsent
    /\ LET p == pop_front(cards)
       IN  /\ result' = p[1]
           /\ cards' = p[2]
           /\ dealtTop' = IF p[1].kind = "Some" THEN Append(dealtTop, p[1].card)
                          ELSE dealtTop
           /\ absent' = IF p[1].kind = "None" THEN absent + 1 ELSE absent
    /\ lastOp' = "deal_top_card"
    /\ UNCHANGED <<stage, rng, deckKind, ranksArg, suitsArg, built, shuffleStep,
                   shuffles, perms, pre, finished, dealtBottom, nType,
                   nShuffleStage>>

\* Deck<Finished>::deal_top_card
deal_top_card ==
    /\ stage = "Finished"
    /\ Len(cards) = 0 => absent < MaxAbsent
    /\ LET p == pop_front(cards)
       IN  /\ result' = p[1]
           /\ cards' = p[2]
           /\ dealtTop' = IF p[1].kind = "Some" THEN Append(dealtTop, p[1].card)
                          ELSE dealtTop
           /\ absent' = IF p[1].kind = "None" THEN absent + 1 ELSE absent
    /\ lastOp' = "deal_top_card"
    /\ UNCHANGED <<stage, rng, deckKind, ranksArg, suitsArg, built, shuffleStep,
                   shuffles, perms, pre, finished, dealtBottom, nType,
                   nShuffleStage>>

\* Deck<Finished>::deal_bottom_card
deal_bottom_card ==
    /\ stage = "Finished"
    /\ Len(cards) = 0 => absent < MaxAbsent
    /\ LET p == pop_back(cards)
       IN  /\ result' = p[1]
           /\ cards' = p[2]
           /\ dealtBottom' = IF p[1].kind = "Some" THEN Append(dealtBottom, p[1].card)
                             ELSE dealtBottom
           /\ absent' = IF p[1].kind = "None" THEN absent + 1 ELSE absent
    /\ lastOp' = "deal_bottom_card"
    /\ UNCHANGED <<stage, rng, deckKind, ranksArg, suitsArg, built, shuffleStep,
                   shuffles, perms, pre, finished, dealtTop, nType,
                   nShuffleStage>>

\* Deck<Finished>::total_cards
total_cards ==
    /\ stage = "Finished"
    /\ result' = Usize(Len(cards))
    /\ lastOp' = "total_cards"
    /\ UNCHANGED <<stage, cards, rng, deckKind, ranksArg, suitsArg, built,
                   shuffleStep, shuffles, perms, pre, finished, dealtTop,
                   dealtBottom, absent, nType, nShuffleStage>>

Next ==
    \/ custom_new
    \/ default_new
    \/ deck_type
    \/ custom_deck_type
    \/ shuffle
    \/ no_shuffle
    \/ deal_top_card
    \/ deal_bottom_card
    \/ total_cards

Spec == Init /\ [][Next]_vars

----------------------------------------------------------------------------
(* Helpers of the properties *)

Count(v, c) == Cardinality({i \in 1..Len(v) : v[i] = c})

Distinct(v) == \A i, j \in 1..Len(v) : i # j => v[i] # v[j]

NoDeals == Len(dealtTop) = 0 /\ Len(dealtBottom) = 0 /\ absent = 0

StageOrder(s) ==
    CASE s = "Start" -> 0
      [] s = "Building" -> 1
      [] s = "Shuffling" -> 2
      [] s = "Finished" -> 3

FinishedOps == {"deal_top_card", "deal_bottom_card", "total_cards"}

----------------------------------------------------------------------------
(* The properties *)

\* C1: a standard build (default_new, or deck_type(FullFrench) finished by
\* shuffle(n) or no_shuffle) yields a finished deck of 52 Cards, total_cards()
\* is 52, and every (Rank, Suit) pair of the 13 x 4 cross-product occurs
\* exactly once.
C1_StandardBuild ==
    (stage = "Finished" /\ deckKind = "FullFrench" /\ NoDeals) =>
        /\ Len(cards) = 52
        /\ Cardinality(Rank) = 13 /\ Cardinality(Suit) = 4
        /\ lastOp = "total_cards" => result = Usize(52)
        /\ \A r \in Rank, s \in Suit : Count(cards, Card_new(r, s)) = 1

C1_Witness ==
    /\ stage = "Finished" /\ deckKind = "FullFrench" /\ NoDeals
    /\ shuffleStep = "shuffle" /\ shuffles = 1000
    /\ cards # built
    /\ lastOp = "total_cards" /\ result = Usize(52)

\* C2: the sequence after shuffle(count) is a permutation of the sequence
\* built before it: same length, same number of occurrences of every Card,
\* for every built deck and every count.
C2_ShufflePermutes ==
    (stage = "Finished" /\ shuffleStep = "shuffle" /\ NoDeals) =>
        /\ Len(cards) = Len(built)
        /\ \A i \in 1..Len(built) : Count(cards, built[i]) = Count(built, built[i])
        /\ \A i \in 1..Len(cards) : Count(cards, cards[i]) = Count(built, cards[i])

C2_Witness ==
    /\ stage = "Finished" /\ shuffleStep = "shuffle" /\ NoDeals
    /\ deckKind = "custom" /\ shuffles = 11
    /\ Len(ranksArg) = 3 /\ ranksArg[1] = ranksArg[3] /\ ranksArg[1] # ranksArg[2]
    /\ Len(suitsArg) = 2
    /\ cards # built /\ cards # Cut(built)

\* C3: on a FullFrench deck finished with shuffle(7) and dealt from the top
\* only, every deal returns a present Card until 52 were dealt, the dealt
\* Cards are pairwise distinct, total_cards() is 52 minus the number dealt,
\* and a deal returns absent only after the 52nd, with total_cards() 0.
C3_DealTopFullFrench ==
    (stage = "Finished" /\ deckKind = "FullFrench" /\ shuffleStep = "shuffle"
        /\ shuffles = 7 /\ dealtBottom = <<>>) =>
        LET k == Len(dealtTop)
        IN  /\ k <= 52
            /\ Len(cards) = 52 - k
            /\ Distinct(dealtTop)
            /\ absent > 0 => k = 52 /\ Len(cards) = 0
            /\ lastOp = "deal_top_card" =>
                   \/ result.kind = "Some" /\ k >= 1 /\ result.card = dealtTop[k]
                   \/ result.kind = "None" /\ k = 52 /\ absent > 0
            /\ lastOp = "total_cards" => result = Usize(52 - k)

C3_Witness ==
    /\ stage = "Finished" /\ deckKind = "FullFrench" /\ shuffleStep = "shuffle"
    /\ shuffles = 7 /\ dealtBottom = <<>>
    /\ Len(dealtTop) = 52 /\ absent = 1
    /\ lastOp = "deal_top_card" /\ result = None
    /\ dealtTop # built

\* C4: custom_deck_type(R, S) builds |R| * |S| Cards, the one at (0-based)
\* index i * |R| + j being Card(R[j], S[i]): suit-major, rank-minor, with the
\* order and the duplicates of the slices.
C4_CustomBuildOrder ==
    (stage = "Shuffling" /\ deckKind = "custom") =>
        LET nr == Len(ranksArg)
            ns == Len(suitsArg)
        IN  /\ Len(cards) = nr * ns
            /\ \A i \in 0..(ns - 1), j \in 0..(nr - 1) :
                   cards[i * nr + j + 1] = Card_new(ranksArg[j + 1], suitsArg[i + 1])

C4_Witness ==
    /\ stage = "Shuffling" /\ deckKind = "custom"
    /\ ranksArg = <<"King", "Ace", "King">>
    /\ suitsArg = <<"Spades", "Hearts">>
    /\ Len(cards) = 6

\* C5: shuffle ends with one cut: with pre the sequence after the
\* permutations and N its length, the finished sequence is pre[N/2:] followed
\* by pre[:N/2], for every count and every N.
C5_CutRotation ==
    (stage = "Finished" /\ shuffleStep = "shuffle" /\ NoDeals) =>
        LET N == Len(pre)
        IN  /\ Len(cards) = N
            /\ \A i \in 0..(N - 1) : cards[i + 1] = pre[((i + (N \div 2)) % N) + 1]

C5_Witness ==
    /\ stage = "Finished" /\ shuffleStep = "shuffle" /\ NoDeals
    /\ Len(pre) = 3 /\ pre[1] # pre[3]
    /\ shuffles = 7
    /\ cards = <<pre[2], pre[3], pre[1]>>

C7_DocumentedCount ==
    (stage = "Finished" /\ shuffleStep = "shuffle" /\ shuffles \in 1..10) =>
        /\ perms = shuffles
        /\ perms \in 1..10

\* C8: the stage only moves forward; a deck takes at most one deck-type
\* selection and one shuffle-stage step, a Finished deck took exactly one of
\* each, and deal_top_card, deal_bottom_card and total_cards act on a
\* Finished deck only.
C8_Lifecycle ==
    [][ /\ StageOrder(stage') >= StageOrder(stage)
        /\ nType' \in {nType, nType + 1} /\ nType' <= 1
        /\ nShuffleStage' \in {nShuffleStage, nShuffleStage + 1} /\ nShuffleStage' <= 1
        /\ stage = "Finished" => (stage' = "Finished" /\ nType' = nType
                                  /\ nShuffleStage' = nShuffleStage)
        /\ stage' = "Finished" => (nType' = 1 /\ nShuffleStage' = 1)
        /\ lastOp' \in FinishedOps =>
               (stage = "Finished" /\ nType = 1 /\ nShuffleStage = 1)
      ]_vars

C8_Witness ==
    /\ stage = "Finished" /\ nType = 1 /\ nShuffleStage = 1
    /\ deckKind = "custom" /\ shuffleStep = "no_shuffle"
    /\ lastOp = "deal_bottom_card" /\ Len(dealtTop) > 0

\* C9: on an empty finished deck deal_top_card and deal_bottom_card return
\* absent and leave the deck empty, however often they are called.
C9_EmptyDeal ==
    [][ (stage = "Finished" /\ Len(cards) = 0
            /\ lastOp' \in {"deal_top_card", "deal_bottom_card"}) =>
        (result' = None /\ cards' = <<>> /\ Len(cards') = 0
            /\ stage' = "Finished"
            /\ dealtTop' = dealtTop /\ dealtBottom' = dealtBottom)
      ]_vars

C9_Witness ==
    /\ stage = "Finished" /\ cards = <<>>
    /\ absent = MaxAbsent /\ result = None
    /\ lastOp = "deal_bottom_card"
    /\ Len(dealtTop) > 0 /\ Len(dealtBottom) > 0

\* C10: with F the finished sequence, N its length, k top deals and m bottom
\* deals made: k + m <= N, the top deals returned F[0..k) in order, the bottom
\* deals F[N-1], F[N-2], ..., F[N-m], the deck holds F[k..N-m) in order, and
\* total_cards() is N - k - m and changes nothing.
C10_DealEnds ==
    stage = "Finished" =>
        LET N == Len(finished)
            k == Len(dealtTop)
            m == Len(dealtBottom)
        IN  /\ k + m <= N
            /\ dealtTop = SubSeq(finished, 1, k)
            /\ \A i \in 1..m : dealtBottom[i] = finished[N - i + 1]
            /\ cards = SubSeq(finished, k + 1, N - m)
            /\ Len(cards) = N - k - m
            /\ lastOp = "total_cards" => result = Usize(N - k - m)
            /\ (lastOp = "deal_top_card" /\ result.kind = "Some") =>
                   result.card = finished[k]
            /\ (lastOp = "deal_bottom_card" /\ result.kind = "Some") =>
                   result.card = finished[N - m + 1]

C10_Witness ==
    /\ stage = "Finished" /\ deckKind = "custom" /\ shuffleStep = "shuffle"
    /\ Len(finished) = 6
    /\ Len(dealtTop) = 2 /\ Len(dealtBottom) = 3
    /\ lastOp = "total_cards" /\ result = Usize(1)
    /\ dealtTop[1] # dealtBottom[1]

====
